---- MODULE Spec2Model ----
(***************************************************************************)
(* The vending-machine publish/subscribe service of Endifly/simple-pubsub. *)
(*                                                                         *)
(* The repository holds two implementations of the same service:           *)
(*   impl = "set"   : src/unnamed/part_000 (pool of Set<ISubscriber>,      *)
(*                    eventQueue push/shift, unsubscribe, Machine.sale /   *)
(*                    Machine.refill)                                      *)
(*   impl = "array" : src/app.ts (pool of Array<ISubscriber>, eventStack   *)
(*                    unshift/pop, no unsubscribe, Machine.soldStock /     *)
(*                    Machine.refillStock with the isLowStock flag)        *)
(* Both are modelled; impl is fixed by Init and never changes.             *)
(*                                                                         *)
(* The program is single threaded and publish is synchronous, so the       *)
(* caller's calls (subscribe, unsubscribe, publish, direct Machine calls)  *)
(* start only when pc = "idle".  A publish call is split at the points     *)
(* where the code itself loops: the while test of executeEvent (Dequeue /  *)
(* Return) and each callback of forEach (Invoke).                          *)
(*                                                                         *)
(* Handlers are the caller's objects.  Besides the four classes of the     *)
(* repository, whose handle never calls the service, the model has four    *)
(* handlers a caller can write (subclasses of MachineSaleSubscriber, which *)
(* the instanceof checks of part_000 accept): one that calls publish from  *)
(* handle, one that calls subscribe, one that calls unsubscribe and one    *)
(* that throws.  A publish called from handle runs its own executeEvent    *)
(* loop inside the handler's call; the suspended forEach waits in stack.   *)
(*                                                                         *)
(* Specifications:                                                         *)
(*   Spec         new service, any subscribe / unsubscribe / publish, the  *)
(*                four provided classes                                    *)
(*   SpecCase1    the registry of case1, every call observed, direct       *)
(*                Machine calls                                            *)
(*   SpecSubsets  any subset of the case1 subscribers, with fairness       *)
(*   SpecHandlers the registry of case1 with the caller's handlers in the  *)
(*                sale bucket                                              *)
(*   SpecRegistry new service, subscribe / unsubscribe only, observed      *)
(***************************************************************************)
EXTENDS Integers, Sequences, FiniteSets, TLC

VARIABLES
  impl,        \* which source file is running: "set" or "array"
  observe,     \* whether the per-call observations (pre, ret, log) are kept
  stockLevel,  \* Machine.stockLevel, by machine id
  isLowStock,  \* Machine.isLowStock, by machine id (src/app.ts only)
  pool,        \* PublishSubscribeService.pool: kind -> bucket, keys created lazily
  queue,       \* eventQueue (part_000) / eventStack (app.ts)
  pc,          \* "idle" | "loop" (while test of executeEvent) | "each" (inside forEach)
  cur,         \* the event taken from the queue by executeEvent
  idx,         \* number of bucket entries forEach has already visited
  snap,        \* the bucket as it was when forEach began (Array.forEach fixes its range)
  stack,       \* the forEach frames suspended in a handler that called publish
  calls,       \* observation: invocations of each handler for the event cur
  subscribed,  \* observation: <<kind, handler>> pairs subscribed and not unsubscribed since
  order,       \* observation: by kind, the handlers of subscribed in the order of
               \* the subscribe calls that registered them
  pub,         \* observation: the event of the top-level publish call in progress
  nextN,       \* observation: enqueue ticket of the next event added to the queue
  lastN,       \* observation: ticket of the event of the latest handler invocation
  pre,         \* observation (observe only): stockLevel when publish was called
  log,         \* observation (observe only): events dequeued by this publish call
  ret,         \* observation (observe only): the latest call of the caller
  lastEmit     \* observation (SpecSubsets only): by machine id, the kind of the
               \* event a sale or refill subscriber last handed to lazyFire for it

vars == <<impl, observe, stockLevel, isLowStock, pool, queue, pc, cur, idx, snap,
          stack, calls, subscribed, order, pub, nextN, lastN, pre, log, ret,
          lastEmit>>

----------------------------------------------------------------------------
(* Bounds and program constants *)

MaxStock == 10

MaxBucket == 2

MaxTicket == 4

InitialStock == 10

Threshold == 3

Kinds == {"sale", "refill", "stock_low", "stock_ok"}

MachineIds == {"001", "002"}

UnknownId == "009"

Handlers ==
  {"saleSubscriber", "saleSubscriber2", "refillSubscriber",
   "stockWarningSubscriber", "stockOkSubscriber1"}

\* handlers a caller can write: subclasses of MachineSaleSubscriber whose handle
\* calls publish, subscribe or unsubscribe on the service, or throws
CustomHandlers == {"salePublisher", "saleAdder", "saleRemover", "saleThrower"}

AllHandlers == Handlers \cup CustomHandlers

ClassOf(h) ==
  CASE h \in {"saleSubscriber", "saleSubscriber2"} \cup CustomHandlers -> "sale"
    [] h = "refillSubscriber" -> "refill"
    [] h = "stockWarningSubscriber" -> "stock_low"
    [] OTHER -> "stock_ok"

Max(a, b) == IF a >= b THEN a ELSE b

MachineSaleEvent(sold, id) == [type |-> "sale", machineId |-> id, qty |-> sold]

MachineRefillEvent(q, id) == [type |-> "refill", machineId |-> id, qty |-> q]

LowStockWarningEvent(id) == [type |-> "stock_low", machineId |-> id, qty |-> 0]

StockLevelOkEvent(id) == [type |-> "stock_ok", machineId |-> id, qty |-> 0]

NoEvent == [type |-> "none", machineId |-> "", qty |-> 0, n |-> -1]

Ticket(e, t) == [type |-> e.type, machineId |-> e.machineId, qty |-> e.qty, n |-> t]

NoCalls == [h \in AllHandlers |-> 0]

NoPre == [id \in MachineIds |-> 0]

\* lastEmit where the emitted kinds are not observed
NoEmit == <<>>

NoRet == [op |-> "none", id |-> "", amount |-> 0, prev |-> 0, prevLow |-> FALSE,
          thrown |-> FALSE, result |-> FALSE, kind |-> "", handler |-> "",
          before |-> <<>>]

----------------------------------------------------------------------------
(* Machine *)

\* mutant of sale: the floor at 0 is missing
saleNoFloor(stock, saleAmount) ==
  IF saleAmount < 0
    THEN [thrown |-> TRUE, stock |-> stock, result |-> FALSE]
    ELSE [thrown |-> FALSE, stock |-> stock - saleAmount,
          result |-> (stock >= Threshold /\ stock - saleAmount < Threshold)]

\* mutant of sale: the test for a negative amount is missing
saleNegativeAccepted(stock, saleAmount) ==
  LET new == Max(0, stock - saleAmount)
  IN [thrown |-> FALSE, stock |-> new,
      result |-> (stock >= Threshold /\ new < Threshold)]

\* part_000 Machine.sale
sale(stock, saleAmount) ==
  IF saleAmount < 0
    THEN [thrown |-> TRUE, stock |-> stock, result |-> FALSE]
    ELSE LET new == Max(0, stock - saleAmount)
         IN [thrown |-> FALSE, stock |-> new,
             result |-> (stock >= Threshold /\ new < Threshold)]

\* mutant of refill: the threshold is exclusive on the ok side
refillStrict(stock, refillAmount) ==
  IF refillAmount < 0
    THEN [thrown |-> TRUE, stock |-> stock, result |-> FALSE]
    ELSE [thrown |-> FALSE, stock |-> stock + refillAmount,
          result |-> (stock < Threshold /\ stock + refillAmount > Threshold)]

\* part_000 Machine.refill
refill(stock, refillAmount) ==
  IF refillAmount < 0
    THEN [thrown |-> TRUE, stock |-> stock, result |-> FALSE]
    ELSE LET new == stock + refillAmount
         IN [thrown |-> FALSE, stock |-> new,
             result |-> (stock < Threshold /\ new >= Threshold)]

\* app.ts Machine.soldStock
soldStock(stock, low, soldAmount) ==
  IF soldAmount < 0
    THEN [thrown |-> TRUE, stock |-> stock, low |-> low, result |-> FALSE]
    ELSE LET new == Max(0, stock - soldAmount)
             newLow == IF new < Threshold THEN TRUE ELSE low
         IN [thrown |-> FALSE, stock |-> new, low |-> newLow, result |-> newLow]

\* app.ts Machine.refillStock
refillStock(stock, low, refillAmount) ==
  IF refillAmount < 0
    THEN [thrown |-> TRUE, stock |-> stock, low |-> low, result |-> FALSE]
    ELSE LET new == stock + refillAmount
             isRefilled == low /\ new > Threshold
         IN [thrown |-> FALSE, stock |-> new,
             low |-> (IF new >= Threshold THEN FALSE ELSE low),
             result |-> isRefilled]

\* the sell operation of the running implementation, as one record
MachineSell(i, stock, low, amount) ==
  IF i = "set"
    THEN LET r == sale(stock, amount)
         IN [thrown |-> r.thrown, stock |-> r.stock, low |-> low, result |-> r.result]
    ELSE soldStock(stock, low, amount)

\* the refill operation of the running implementation, as one record
MachineRefill(i, stock, low, amount) ==
  IF i = "set"
    THEN LET r == refill(stock, amount)
         IN [thrown |-> r.thrown, stock |-> r.stock, low |-> low, result |-> r.result]
    ELSE refillStock(stock, low, amount)

----------------------------------------------------------------------------
(* Subscribers: handle(event, lazyFire).  Each returns whether it threw, the
   machines afterwards, and the events it handed to lazyFire, in order.  The
   machines array holds machines with distinct ids, so at most one matches. *)

NoEffect(stock, low) == [thrown |-> FALSE, stock |-> stock, low |-> low, out |-> <<>>]

TypeError(stock, low) == [thrown |-> TRUE, stock |-> stock, low |-> low, out |-> <<>>]

\* mutant of MachineSaleSubscriberHandle: the test of the machine id is missing,
\* the sale is made on machine 001 whatever the event says
MachineSaleSubscriberHandleAnyId(i, e, stock, low) ==
  IF e.type # "sale" THEN TypeError(stock, low)
  ELSE LET r == MachineSell(i, stock["001"], low["001"], e.qty)
       IN [thrown |-> r.thrown,
           stock |-> [stock EXCEPT !["001"] = r.stock],
           low |-> [low EXCEPT !["001"] = r.low],
           out |-> IF r.result THEN <<LowStockWarningEvent("001")>> ELSE <<>>]

\* MachineSaleSubscriber.handle
MachineSaleSubscriberHandle(i, e, stock, low) ==
  IF e.machineId \notin MachineIds THEN NoEffect(stock, low)
  ELSE IF e.type # "sale" THEN TypeError(stock, low)  \* event.getSoldQuantity is not a function
  ELSE LET id == e.machineId
           r == MachineSell(i, stock[id], low[id], e.qty)
       IN [thrown |-> r.thrown,
           stock |-> [stock EXCEPT ![id] = r.stock],
           low |-> [low EXCEPT ![id] = r.low],
           out |-> IF r.result THEN <<LowStockWarningEvent(id)>> ELSE <<>>]

\* MachineRefillSubscriber.handle
MachineRefillSubscriberHandle(i, e, stock, low) ==
  IF e.machineId \notin MachineIds THEN NoEffect(stock, low)
  ELSE IF e.type # "refill" THEN TypeError(stock, low)  \* event.getRefillQuantity is not a function
  ELSE LET id == e.machineId
           r == MachineRefill(i, stock[id], low[id], e.qty)
       IN [thrown |-> r.thrown,
           stock |-> [stock EXCEPT ![id] = r.stock],
           low |-> [low EXCEPT ![id] = r.low],
           out |-> IF r.result THEN <<StockLevelOkEvent(id)>> ELSE <<>>]

\* mutant of LogOnlyHandle: the warning subscriber fires a StockOk event
LogOnlyHandleFires(i, e, stock, low) ==
  [thrown |-> FALSE, stock |-> stock, low |-> low,
   out |-> IF e.type = "stock_low" THEN <<StockLevelOkEvent(e.machineId)>> ELSE <<>>]

\* MachineStockWarningSubscriber.handle, MachineStockOkSubscriber.handle: console.log only
LogOnlyHandle(i, e, stock, low) == NoEffect(stock, low)

handle(i, h, e, stock, low) ==
  CASE ClassOf(h) = "sale" -> MachineSaleSubscriberHandle(i, e, stock, low)
    [] ClassOf(h) = "refill" -> MachineRefillSubscriberHandle(i, e, stock, low)
    [] OTHER -> LogOnlyHandle(i, e, stock, low)

----------------------------------------------------------------------------
(* PublishSubscribeService: registry and queue primitives *)

EmptyPool == [k \in {} |-> <<>>]

\* mutant of getCallbackPool: the bucket is created anew on every lookup
getCallbackPoolAlwaysNew(p, type) ==
  [k \in (DOMAIN p) \cup {type} |-> IF k = type THEN <<>> ELSE p[k]]

\* getCallbackPool / getCallbackPoll: the bucket of a kind is created on first lookup
getCallbackPool(p, type) ==
  IF type \in DOMAIN p THEN p
  ELSE [k \in (DOMAIN p) \cup {type} |-> IF k = type THEN <<>> ELSE p[k]]

Bucket(p, type) == IF type \in DOMAIN p THEN p[type] ELSE <<>>

Members(s) == {s[j] : j \in 1..Len(s)}

\* mutant of SetAdd: a member added again moves to the end
SetAddMovesToEnd(s, h) == Append(SelectSeq(s, LAMBDA x : x # h), h)

\* mutant of SetAdd: a member is entered a second time
SetAddAgain(s, h) == Append(s, h)

\* Set.prototype.add: insertion order, no second entry for a member
SetAdd(s, h) == IF h \in Members(s) THEN s ELSE Append(s, h)

\* mutant of SetDelete: nothing is deleted
SetDeleteNothing(s, h) == s

\* Set.prototype.delete
SetDelete(s, h) == SelectSeq(s, LAMBDA x : x # h)

\* Array.prototype.push
ArrayPush(s, h) == Append(s, h)

\* mutant of addEvent: eventStack.push, which with pop dispatches the newest event first
addEventAtPopEnd(i, q, e) == Append(q, e)

\* addEvent: eventQueue.push (part_000) / eventStack.unshift (app.ts)
addEvent(i, q, e) == IF i = "set" THEN Append(q, e) ELSE <<e>> \o q

\* mutant of LoopTest: the loop stops one event early
LoopTestOffByOne(q) == Len(q) > 1

\* executeEvent: while (this.eventQueue.length > 0)
LoopTest(q) == Len(q) > 0

\* mutant of DispatchBucket: every handler of every kind receives the event
BroadcastBucket(p, type) ==
  Bucket(p, "sale") \o Bucket(p, "refill") \o Bucket(p, "stock_low") \o Bucket(p, "stock_ok")

\* executeEvent: the bucket forEach runs over, this.getCallbackPool(event.type())
DispatchBucket(p, type) == Bucket(p, type)

\* mutant of IterBucket: forEach runs over a copy taken when it began
IterSnapshot(i, p, type, s) == s

\* the entries forEach runs over: Set.prototype.forEach reads the live Set, so it
\* visits entries added while it runs and skips entries deleted before their
\* turn; Array.prototype.forEach stops at the length the array had at the start
IterBucket(i, p, type, s) == IF i = "set" THEN DispatchBucket(p, type) ELSE s

\* position of h in a bucket, 0 when absent
PositionIn(b, h) == IF h \in Members(b) THEN CHOOSE j \in 1..Len(b) : b[j] = h ELSE 0

\* the event executeEvent takes: eventQueue.shift() / eventStack.pop()
TakenEvent(i, q) == IF i = "set" THEN Head(q) ELSE q[Len(q)]

\* mutant of AfterTake: the event is read but stays in the queue
AfterTakeNothing(i, q) == q

\* the queue after executeEvent took its event
AfterTake(i, q) == IF i = "set" THEN Tail(q) ELSE SubSeq(q, 1, Len(q) - 1)

RECURSIVE AddAll(_, _, _, _)
\* lazyFire called once per emitted event, each with the next ticket
AddAll(i, q, out, t) ==
  IF out = <<>> THEN q
  ELSE AddAll(i, addEvent(i, q, Ticket(Head(out), t)), Tail(out), t + 1)

\* mutant of InvalidSubscribe: every handler passes the checks
InvalidSubscribeNever(type, h) == FALSE

\* mutant of InvalidSubscribe: only the first of the four checks is made
InvalidSubscribeRefillOnly(type, h) == type = "refill" /\ ClassOf(h) # "refill"

\* part_000 subscribe: the instanceof checks
InvalidSubscribe(type, h) == ClassOf(h) # type

\* the pool after subscribe(type, handler) when it does not throw
SubscribedPool(i, p, type, h) ==
  LET q == getCallbackPool(p, type)
  IN [q EXCEPT ![type] = IF i = "set" THEN SetAdd(q[type], h) ELSE ArrayPush(q[type], h)]

\* mutant of UnsubscribedPool: only the first bucket is looked at
UnsubscribedPoolFirstKey(p, h) ==
  [k \in DOMAIN p |-> IF k = "sale" THEN SetDelete(p[k], h) ELSE p[k]]

\* the pool after unsubscribe(handler): delete from the bucket of every key
UnsubscribedPool(p, h) == [k \in DOMAIN p |-> SetDelete(p[k], h)]

----------------------------------------------------------------------------
(* Inputs *)

\* events the callers publish in the general specification
Events ==
  {MachineSaleEvent(q, id) : q \in {-1, 8}, id \in MachineIds \cup {UnknownId}}
    \cup {MachineRefillEvent(q, id) : q \in {-1, 1, 5}, id \in MachineIds}
    \cup {LowStockWarningEvent(id) : id \in MachineIds}
    \cup {StockLevelOkEvent(id) : id \in MachineIds}

\* amounts of the direct Machine calls and of the events of the case1 specification
Amounts == -1 .. (MaxStock + 1)

EventsCase1 ==
  {MachineSaleEvent(q, id) : q \in Amounts, id \in MachineIds \cup {UnknownId}}
    \cup {MachineRefillEvent(q, id) : q \in Amounts, id \in MachineIds \cup {UnknownId}}

\* the registry case1 builds (part_000 lines 279-282, app.ts lines 268-271)
Case1Pairs ==
  {<<"sale", "saleSubscriber">>, <<"refill", "refillSubscriber">>,
   <<"stock_low", "stockWarningSubscriber">>, <<"stock_ok", "stockOkSubscriber1">>}

Case1Pool ==
  [k \in Kinds |-> <<CHOOSE h \in Handlers : <<k, h>> \in Case1Pairs>>]

\* stock a published refill can reach: every refill handler of the bucket applies it
RefillFits(e) ==
  (e.type = "refill" /\ e.machineId \in MachineIds /\ e.qty > 0)
    => stockLevel[e.machineId] + e.qty * Len(Bucket(pool, "refill")) <= MaxStock

----------------------------------------------------------------------------
(* Actions *)

\* the kinds last emitted, after a handler handed the events of out to lazyFire
\* (each handler emits at most one event); not kept where it is not observed
Emitted(last, out) ==
  IF last = NoEmit \/ out = <<>> THEN last
  ELSE [last EXCEPT ![out[1].machineId] = out[1].type]

\* the order of registration after a subscribe(type, h) call that did not throw:
\* a handler registered already keeps its place, a new one is the latest
OrderSubscribed(o, type, h) ==
  IF h \in Members(o[type]) THEN o ELSE [o EXCEPT ![type] = Append(@, h)]

\* the order of registration after unsubscribe(h): h is registered nowhere
OrderUnsubscribed(o, h) == [k \in Kinds |-> SelectSeq(o[k], LAMBDA x : x # h)]

\* the observations of a call are dropped when it is over, unless observe; the
\* tickets go on while events are left in the queue
CallOver(thrown) ==
  IF observe
    THEN /\ ret' = [NoRet EXCEPT !.op = "publish", !.thrown = thrown]
         /\ UNCHANGED <<cur, idx, snap, calls, pub, nextN, lastN, pre, log>>
    ELSE /\ cur' = NoEvent
         /\ idx' = 0
         /\ snap' = <<>>
         /\ calls' = NoCalls
         /\ pub' = NoEvent
         /\ nextN' = IF queue = <<>> THEN 0 ELSE nextN
         /\ lastN' = IF queue = <<>> THEN -1 ELSE lastN
         /\ UNCHANGED <<pre, log, ret>>

\* subscribe(type, handler).  app.ts has no instanceof check and no unsubscribe:
\* its callers pass one of the four subscribers app.ts constructs, under the kind
\* of its class, as every call in app.ts does; its buckets are bounded by MaxBucket.
Subscribe(type, h) ==
  /\ pc = "idle"
  /\ impl = "array" => (ClassOf(h) = type /\ h # "saleSubscriber2"
                         /\ Len(Bucket(pool, type)) < MaxBucket)
  /\ IF impl = "set" /\ InvalidSubscribe(type, h)
       THEN UNCHANGED <<pool, subscribed>>   \* throw Error("Invalid subscribe instant")
       ELSE /\ pool' = SubscribedPool(impl, pool, type, h)
            /\ subscribed' = subscribed \cup {<<type, h>>}
  /\ ret' = IF observe
              THEN [NoRet EXCEPT !.op = "subscribe", !.kind = type, !.handler = h,
                                 !.thrown = (impl = "set" /\ InvalidSubscribe(type, h)),
                                 !.before = pool]
              ELSE ret
  /\ UNCHANGED <<impl, observe, stockLevel, isLowStock, queue, pc, cur, idx, snap,
                 stack, calls, pub, nextN, lastN, pre, log>>
  /\ UNCHANGED lastEmit
  /\ order' = IF impl = "set" /\ InvalidSubscribe(type, h)
                THEN order ELSE OrderSubscribed(order, type, h)

\* unsubscribe(handler): part_000 only
Unsubscribe(h) ==
  /\ pc = "idle"
  /\ impl = "set"
  /\ pool' = UnsubscribedPool(pool, h)
  /\ subscribed' = {p \in subscribed : p[2] # h}
  /\ ret' = IF observe
              THEN [NoRet EXCEPT !.op = "unsubscribe", !.handler = h, !.before = pool]
              ELSE ret
  /\ UNCHANGED <<impl, observe, stockLevel, isLowStock, queue, pc, cur, idx, snap,
                 stack, calls, pub, nextN, lastN, pre, log>>
  /\ UNCHANGED lastEmit
  /\ order' = OrderUnsubscribed(order, h)

\* publish(event), up to the call of executeEvent
Publish(e) ==
  /\ pc = "idle"
  /\ RefillFits(e)
  /\ queue = <<>> \/ nextN < MaxTicket
  /\ LET t == IF queue = <<>> THEN 0 ELSE nextN
     IN /\ queue' = addEvent(impl, queue, Ticket(e, t))
        /\ nextN' = t + 1
        /\ pub' = Ticket(e, t)
  /\ lastN' = IF queue = <<>> THEN -1 ELSE lastN
  /\ pc' = "loop"
  /\ cur' = NoEvent
  /\ idx' = 0
  /\ snap' = <<>>
  /\ calls' = NoCalls
  /\ pre' = IF observe THEN stockLevel ELSE pre
  /\ log' = IF observe THEN <<>> ELSE log
  /\ ret' = NoRet
  /\ UNCHANGED <<impl, observe, stockLevel, isLowStock, pool, stack, subscribed>>
  /\ UNCHANGED lastEmit
  /\ UNCHANGED order

\* executeEvent: the while test succeeds, the event is taken and its bucket looked up
Dequeue ==
  /\ pc = "loop"
  /\ LoopTest(queue)
  /\ LET event == TakenEvent(impl, queue)
     IN /\ cur' = event
        /\ queue' = AfterTake(impl, queue)
        /\ pool' = getCallbackPool(pool, event.type)
        /\ snap' = DispatchBucket(pool, event.type)
        /\ pc' = IF DispatchBucket(pool, event.type) = <<>> THEN "loop" ELSE "each"
        /\ log' = IF observe THEN Append(log, event) ELSE log
  /\ idx' = 0
  /\ calls' = NoCalls
  /\ UNCHANGED <<impl, observe, stockLevel, isLowStock, stack, subscribed, pub, nextN,
                 lastN, pre, ret>>
  /\ UNCHANGED lastEmit
  /\ UNCHANGED order

\* the handler the next callback of forEach is for
NextHandler == IterBucket(impl, pool, cur.type, snap)[idx + 1]

\* a callback of forEach has returned: handler h is visited, forEach goes on at
\* entry newIdx of the bucket as it is in newPool
Visited(h, newIdx, newPool) ==
  /\ calls' = [calls EXCEPT ![h] = @ + 1]
  /\ idx' = newIdx
  /\ lastN' = cur.n
  /\ pc' = IF newIdx < Len(IterBucket(impl, newPool, cur.type, snap))
             THEN "each" ELSE "loop"

\* one callback of forEach: handler.handle(event, this.addEvent.bind(this)), for a
\* handler of the four provided classes
Invoke ==
  /\ pc = "each"
  /\ idx < Len(IterBucket(impl, pool, cur.type, snap))
  /\ NextHandler \in Handlers
  /\ LET h == NextHandler
         r == handle(impl, h, cur, stockLevel, isLowStock)
     IN /\ stockLevel' = r.stock
        /\ isLowStock' = r.low
        /\ IF r.thrown
             THEN \* the error leaves forEach, executeEvent and every publish on the stack
                  /\ pc' = "idle"
                  /\ stack' = <<>>
                  /\ UNCHANGED <<queue, lastEmit>>
                  /\ CallOver(TRUE)
             ELSE /\ queue' = AddAll(impl, queue, r.out, nextN)
                  /\ nextN' = nextN + Len(r.out)
                  /\ lastEmit' = Emitted(lastEmit, r.out)
                  /\ Visited(h, idx + 1, pool)
                  /\ UNCHANGED <<cur, snap, stack, pub, pre, log, ret>>
  /\ UNCHANGED <<impl, observe, pool, subscribed>>
  /\ UNCHANGED order

\* one callback of forEach for a handler whose handle calls
\* service.publish(new StockLevelOkEvent(event.machineId())): publish adds the
\* event and calls executeEvent, whose loop runs inside the handler's call
InvokePublisher ==
  /\ pc = "each"
  /\ idx < Len(IterBucket(impl, pool, cur.type, snap))
  /\ NextHandler = "salePublisher"
  /\ stack' = Append(stack, [cur |-> cur, idx |-> idx, snap |-> snap,
                             calls |-> calls, h |-> NextHandler])
  /\ queue' = addEvent(impl, queue, Ticket(StockLevelOkEvent(cur.machineId), nextN))
  /\ nextN' = nextN + 1
  /\ pc' = "loop"
  /\ UNCHANGED <<impl, observe, stockLevel, isLowStock, pool, cur, idx, snap, calls,
                 subscribed, pub, lastN, pre, log, ret>>
  /\ UNCHANGED lastEmit
  /\ UNCHANGED order

\* the nested executeEvent finds the queue empty: the nested publish returns into
\* the handler that called it, the handler returns and the suspended forEach goes on
ReturnNested ==
  /\ pc = "loop"
  /\ ~LoopTest(queue)
  /\ stack # <<>>
  /\ LET f == stack[Len(stack)]
     IN /\ stack' = SubSeq(stack, 1, Len(stack) - 1)
        /\ cur' = f.cur
        /\ snap' = f.snap
        /\ calls' = [f.calls EXCEPT ![f.h] = @ + 1]
        /\ idx' = f.idx + 1
        /\ pc' = IF f.idx + 1 < Len(IterBucket(impl, pool, f.cur.type, f.snap))
                   THEN "each" ELSE "loop"
  /\ UNCHANGED <<impl, observe, stockLevel, isLowStock, pool, queue, subscribed, pub,
                 nextN, lastN, pre, log, ret>>
  /\ UNCHANGED lastEmit
  /\ UNCHANGED order

\* one callback of forEach for a handler whose handle calls
\* service.subscribe(event.type(), saleSubscriber2) unless it is registered already
InvokeAdder ==
  /\ pc = "each"
  /\ idx < Len(IterBucket(impl, pool, cur.type, snap))
  /\ NextHandler = "saleAdder"
  /\ ~(impl = "set" /\ InvalidSubscribe(cur.type, "saleSubscriber2"))
  /\ LET newPool == IF <<cur.type, "saleSubscriber2">> \in subscribed
                      THEN pool
                      ELSE SubscribedPool(impl, pool, cur.type, "saleSubscriber2")
     IN /\ pool' = newPool
        /\ subscribed' = subscribed \cup {<<cur.type, "saleSubscriber2">>}
        /\ Visited(NextHandler, idx + 1, newPool)
  /\ UNCHANGED <<impl, observe, stockLevel, isLowStock, queue, cur, snap, stack, pub,
                 nextN, pre, log, ret>>
  /\ UNCHANGED lastEmit
  /\ order' = OrderSubscribed(order, cur.type, "saleSubscriber2")

\* one callback of forEach for a handler whose handle calls
\* service.unsubscribe(saleSubscriber) (part_000).  Set.prototype.forEach goes by
\* position in the entry list, where a deleted entry leaves a hole: in the list
\* without holes kept here, a deletion before the position moves the position back.
InvokeRemover ==
  /\ pc = "each"
  /\ impl = "set"
  /\ idx < Len(IterBucket(impl, pool, cur.type, snap))
  /\ NextHandler = "saleRemover"
  /\ LET newPool == UnsubscribedPool(pool, "saleSubscriber")
         before(type, n) ==
           LET pos == PositionIn(Bucket(pool, type), "saleSubscriber")
           IN IF pos # 0 /\ pos <= n THEN 1 ELSE 0
     IN /\ pool' = newPool
        /\ subscribed' = {p \in subscribed : p[2] # "saleSubscriber"}
        /\ stack' = [j \in 1..Len(stack) |->
                       [stack[j] EXCEPT !.idx = @ - before(stack[j].cur.type, @)]]
        /\ Visited(NextHandler, idx + 1 - before(cur.type, idx), newPool)
  /\ UNCHANGED <<impl, observe, stockLevel, isLowStock, queue, cur, snap, pub, nextN,
                 pre, log, ret>>
  /\ UNCHANGED lastEmit
  /\ order' = OrderUnsubscribed(order, "saleSubscriber")

\* one callback of forEach for a handler whose handle throws
InvokeThrower ==
  /\ pc = "each"
  /\ idx < Len(IterBucket(impl, pool, cur.type, snap))
  /\ NextHandler = "saleThrower"
  /\ pc' = "idle"
  /\ stack' = <<>>
  /\ CallOver(TRUE)
  /\ UNCHANGED <<impl, observe, stockLevel, isLowStock, pool, queue, subscribed>>
  /\ UNCHANGED lastEmit
  /\ UNCHANGED order

\* executeEvent: the while test fails, executeEvent and the top-level publish return
Return ==
  /\ pc = "loop"
  /\ ~LoopTest(queue)
  /\ stack = <<>>
  /\ pc' = "idle"
  /\ CallOver(FALSE)
  /\ UNCHANGED <<impl, observe, stockLevel, isLowStock, pool, queue, stack, subscribed>>
  /\ UNCHANGED lastEmit
  /\ UNCHANGED order

\* a direct call machine.sale(amount) / machine.soldStock(amount)
DirectSell(id, amount) ==
  /\ pc = "idle"
  /\ LET r == MachineSell(impl, stockLevel[id], isLowStock[id], amount)
     IN /\ stockLevel' = [stockLevel EXCEPT ![id] = r.stock]
        /\ isLowStock' = [isLowStock EXCEPT ![id] = r.low]
        /\ ret' = IF observe
                    THEN [NoRet EXCEPT !.op = "sell", !.id = id, !.amount = amount,
                                       !.prev = stockLevel[id],
                                       !.prevLow = isLowStock[id],
                                       !.thrown = r.thrown, !.result = r.result]
                    ELSE ret
  /\ cur' = NoEvent
  /\ idx' = 0
  /\ snap' = <<>>
  /\ calls' = NoCalls
  /\ pub' = NoEvent
  /\ nextN' = 0
  /\ lastN' = -1
  /\ pre' = NoPre
  /\ log' = <<>>
  /\ UNCHANGED <<impl, observe, pool, queue, pc, stack, subscribed>>
  /\ UNCHANGED lastEmit
  /\ UNCHANGED order

\* a direct call machine.refill(amount) / machine.refillStock(amount)
DirectRefill(id, amount) ==
  /\ pc = "idle"
  /\ stockLevel[id] + amount <= MaxStock
  /\ LET r == MachineRefill(impl, stockLevel[id], isLowStock[id], amount)
     IN /\ stockLevel' = [stockLevel EXCEPT ![id] = r.stock]
        /\ isLowStock' = [isLowStock EXCEPT ![id] = r.low]
        /\ ret' = IF observe
                    THEN [NoRet EXCEPT !.op = "refill", !.id = id, !.amount = amount,
                                       !.prev = stockLevel[id],
                                       !.prevLow = isLowStock[id],
                                       !.thrown = r.thrown, !.result = r.result]
                    ELSE ret
  /\ cur' = NoEvent
  /\ idx' = 0
  /\ snap' = <<>>
  /\ calls' = NoCalls
  /\ pub' = NoEvent
  /\ nextN' = 0
  /\ lastN' = -1
  /\ pre' = NoPre
  /\ log' = <<>>
  /\ UNCHANGED <<impl, observe, pool, queue, pc, stack, subscribed>>
  /\ UNCHANGED lastEmit
  /\ UNCHANGED order

----------------------------------------------------------------------------
(* Specifications *)

InitCommon ==
  /\ impl \in {"set", "array"}
  /\ stockLevel = [id \in MachineIds |-> InitialStock]
  /\ isLowStock = [id \in MachineIds |-> FALSE]
  /\ queue = <<>>
  /\ pc = "idle"
  /\ cur = NoEvent
  /\ idx = 0
  /\ snap = <<>>
  /\ stack = <<>>
  /\ calls = NoCalls
  /\ pub = NoEvent
  /\ nextN = 0
  /\ lastN = -1
  /\ pre = NoPre
  /\ log = <<>>
  /\ ret = NoRet

\* a new service: constructor() { this.pool = {}; this.eventQueue = [] }
Init ==
  /\ InitCommon
  /\ lastEmit = NoEmit
  /\ observe = FALSE
  /\ pool = EmptyPool
  /\ subscribed = {}
  /\ order = [k \in Kinds |-> Bucket(pool, k)]

Next ==
  \/ \E type \in Kinds, h \in Handlers : Subscribe(type, h)
  \/ \E h \in Handlers : Unsubscribe(h)
  \/ \E e \in Events : Publish(e)
  \/ Dequeue
  \/ Invoke
  \/ Return

Spec == Init /\ [][Next]_vars

\* the service of case1 after its four subscribe calls, every call observed
InitCase1 ==
  /\ InitCommon
  /\ lastEmit = NoEmit
  /\ observe = TRUE
  /\ pool = Case1Pool
  /\ subscribed = Case1Pairs
  /\ order = [k \in Kinds |-> Bucket(pool, k)]

NextCase1 ==
  \/ \E e \in EventsCase1 : Publish(e)
  \/ Dequeue
  \/ Invoke
  \/ Return
  \/ \E id \in MachineIds, amount \in Amounts : DirectSell(id, amount)
  \/ \E id \in MachineIds, amount \in Amounts : DirectRefill(id, amount)

SpecCase1 == InitCase1 /\ [][NextCase1]_vars

\* the registry after the subscribe calls of a subset of the case1 pairs
PoolOf(pairs) ==
  [k \in {p[1] : p \in pairs} |-> <<CHOOSE h \in Handlers : <<k, h>> \in pairs>>]

\* a service on which any of the four case1 subscribers have been registered
InitSubsets ==
  /\ InitCommon
  /\ lastEmit = [id \in MachineIds |-> "none"]
  /\ observe = FALSE
  /\ \E pairs \in SUBSET Case1Pairs :
       /\ subscribed = pairs
       /\ pool = PoolOf(pairs)
  /\ order = [k \in Kinds |-> Bucket(pool, k)]

NextSubsets ==
  \/ \E e \in Events : Publish(e)
  \/ Dequeue
  \/ Invoke
  \/ Return

\* publish is synchronous and the program single threaded: once publish is
\* called, the while loop and forEach run on until they return or throw
SpecSubsets ==
  /\ InitSubsets
  /\ [][NextSubsets]_vars
  /\ WF_vars(Dequeue)
  /\ WF_vars(Invoke)
  /\ WF_vars(Return)

\* the handlers that can be registered under sale: the instanceof check of
\* part_000 lets the two sale subscribers and the subclasses through
SaleClass == {h \in AllHandlers : ClassOf(h) = "sale"}

\* sale buckets built by one to MaxBucket subscribe calls with distinct handlers
SaleBuckets ==
  {b \in UNION {[1..n -> SaleClass] : n \in 1..MaxBucket} :
     \A j, k \in 1..Len(b) : b[j] = b[k] => j = k}

\* the service of case1 with the sale bucket built from handlers of the caller,
\* with or without the refill subscriber; app.ts has no unsubscribe for a handler
\* to call
InitHandlers ==
  /\ InitCommon
  /\ lastEmit = NoEmit
  /\ observe = FALSE
  /\ \E b \in SaleBuckets, others \in {Kinds \ {"sale"}, Kinds \ {"sale", "refill"}} :
       /\ impl = "array" => "saleRemover" \notin Members(b)
       /\ pool = [k \in others \cup {"sale"} |-> IF k = "sale" THEN b ELSE Case1Pool[k]]
       /\ subscribed = {p \in Case1Pairs : p[1] \in others}
                         \cup {<<"sale", b[j]>> : j \in 1..Len(b)}
  /\ order = [k \in Kinds |-> Bucket(pool, k)]

\* events published in the specification of the caller's handlers
EventsHandlers ==
  {MachineSaleEvent(8, "001"), MachineSaleEvent(-1, "001"), MachineRefillEvent(5, "001")}

NextHandlers ==
  \/ \E e \in EventsHandlers : Publish(e)
  \/ Dequeue
  \/ Invoke
  \/ InvokePublisher
  \/ InvokeAdder
  \/ InvokeRemover
  \/ InvokeThrower
  \/ Return
  \/ ReturnNested

SpecHandlers == InitHandlers /\ [][NextHandlers]_vars

\* a new service on which only subscribe and unsubscribe are called, each observed
InitRegistry ==
  /\ InitCommon
  /\ lastEmit = NoEmit
  /\ observe = TRUE
  /\ pool = EmptyPool
  /\ subscribed = {}
  /\ order = [k \in Kinds |-> Bucket(pool, k)]

NextRegistry ==
  \/ \E type \in Kinds, h \in Handlers : Subscribe(type, h)
  \/ \E h \in Handlers : Unsubscribe(h)

SpecRegistry == InitRegistry /\ [][NextRegistry]_vars

----------------------------------------------------------------------------
(* Properties *)

QueueIndexes == 1..Len(queue)

Registered(type) == {h \in Handlers : <<type, h>> \in subscribed}

NotSubscribed(h) == \A type \in Kinds : <<type, h>> \notin subscribed

\* the forEach over the bucket of cur has run to its end
DispatchComplete == pc = "loop" /\ cur # NoEvent

\* C1: events are dispatched in the order of their enqueue tickets: a handler is
\* invoked for an event only when no invocation for a later-enqueued event has
\* happened, every event still queued was enqueued after the event being
\* dispatched, and the event taken next is the oldest one queued.
C1_DispatchInEnqueueOrder ==
  /\ pc = "each" => lastN <= cur.n
  /\ (pc # "idle" /\ cur # NoEvent) => \A j \in QueueIndexes : queue[j].n > cur.n
  /\ \A j \in QueueIndexes : queue[j].n > lastN
  /\ queue # <<>> => \A j \in QueueIndexes : TakenEvent(impl, queue).n <= queue[j].n

\* C1 witness: the first of two emitted events is being dispatched while the
\* second, emitted after it, still waits in the queue.
C1_Witness ==
  /\ pc = "each"
  /\ cur.type = "stock_low"
  /\ cur.n = 1
  /\ Len(queue) = 1
  /\ queue[1].n = 2

\* C2: whenever no publish call is executing, the queue is empty.
C2_IdleQueueEmpty == pc = "idle" => queue = <<>>

\* C2 witness: a publish of a sale that cascaded into a low-stock warning is over.
C2_Witness ==
  /\ pc = "idle"
  /\ queue = <<>>
  /\ "stock_low" \in DOMAIN pool
  /\ \E id \in MachineIds : stockLevel[id] < Threshold

\* C3 (as claimed): when the dispatch of an event is complete, every handler
\* subscribed to its kind (once or more, not unsubscribed since) has been invoked
\* exactly once for it, and no other handler has been invoked.
C3_OneInvocationPerSubscribedHandler ==
  DispatchComplete =>
    \A h \in Handlers : calls[h] = IF h \in Registered(cur.type) THEN 1 ELSE 0

\* C3 on part_000 alone: with the Set buckets the statement of C3 holds.
C3_Part000OneInvocation ==
  (impl = "set" /\ DispatchComplete) =>
    \A h \in Handlers : calls[h] = IF h \in Registered(cur.type) THEN 1 ELSE 0

\* C4: the registry holds exactly the pairs subscribed and not unsubscribed since
\* (unsubscribe(h) removes h from every bucket and nothing else), and a handler
\* that is unsubscribed and not subscribed again is never invoked.
C4_UnsubscribeRemovesEverywhere ==
  /\ \A type \in Kinds : Members(Bucket(pool, type)) = Registered(type)
  /\ \A h \in Handlers : NotSubscribed(h) => calls[h] = 0

\* C4 witness: part_000, machine 001 was sold by a sale handler, every sale handler
\* has been unsubscribed since, and a Sale for machine 002 has been dispatched
\* without touching it.
C4_Witness ==
  /\ impl = "set"
  /\ DispatchComplete
  /\ cur.type = "sale" /\ cur.machineId = "002" /\ cur.qty = 8
  /\ Registered("sale") = {}
  /\ Registered("stock_low") # {}
  /\ stockLevel["001"] < InitialStock
  /\ stockLevel["002"] = InitialStock

\* C5: while a published Refill is processed with no Refill handler subscribed, no
\* step changes any machine's stockLevel or puts a StockOk event in the queue; and
\* while the refill subscriber is subscribed, its invocation for a Refill of a
\* known machine adds the quantity to that machine.
C5_RefillAfterUnsubscribe ==
  [][/\ (pub.type = "refill" /\ Registered("refill") = {})
          => /\ stockLevel' = stockLevel
             /\ \A j \in 1..Len(queue') : queue'[j].type # "stock_ok"
     /\ (pc = "each" /\ cur.type = "refill" /\ cur.qty >= 0
           /\ cur.machineId \in MachineIds /\ Registered("refill") # {})
          => stockLevel'[cur.machineId] = stockLevel[cur.machineId] + cur.qty]_vars

\* C5 witness: part_000, machine 001 was refilled to 7 while the refill subscriber
\* was registered; after its unsubscribe a Refill for 001 has been dispatched and
\* the stock is still 7.
C5_Witness ==
  /\ impl = "set"
  /\ DispatchComplete
  /\ pub.type = "refill" /\ cur = pub /\ cur.machineId = "001"
  /\ Registered("refill") = {}
  /\ stockLevel["001"] = 7
  /\ queue = <<>>

\* C6: a handler invoked for an event is in the bucket of that event's kind, and a
\* handler subscribed only under Sale is invoked for Sale events only.
C6_CrossKindIsolation ==
  \A h \in Handlers :
    calls[h] > 0 =>
      /\ h \in Members(Bucket(pool, cur.type))
      /\ (\A type \in Kinds : <<type, h>> \in subscribed => type = "sale")
           => cur.type = "sale"

\* C6 witness: a cascaded LowStockWarning has been delivered to the warning
\* subscriber and not to the registered sale subscriber.
C6_Witness ==
  /\ DispatchComplete
  /\ cur.type = "stock_low"
  /\ pub.type = "sale"
  /\ calls["stockWarningSubscriber"] = 1
  /\ calls["saleSubscriber"] = 0
  /\ "saleSubscriber" \in Registered("sale")

\* the publish call observed in pub has returned normally
Returned == pc = "idle" /\ ret.op = "publish" /\ ~ret.thrown

\* an event of the given kind for machine id was taken from the queue in this call
Dispatched(type, id) ==
  \E j \in 1..Len(log) : log[j].type = type /\ log[j].machineId = id

\* C7: part_000 with the four case1 subscribers: a returned publish(Sale(q, m)),
\* q >= 0, leaves stock max(0, s - q) and has dispatched LowStockWarning(m) exactly
\* when s >= 3 and max(0, s - q) < 3; a returned publish(Refill(q, m)) leaves
\* stock s + q and has dispatched StockOk(m) exactly when s < 3 and s + q >= 3.
\* The cascaded event is the last one dispatched and reached its one subscriber.
C7_Case1PublishResult ==
  (impl = "set" /\ Returned /\ pub.machineId \in MachineIds /\ pub.qty >= 0) =>
    LET m == pub.machineId
        s == pre[m]
        q == pub.qty
    IN /\ pub.type = "sale" =>
            /\ stockLevel[m] = Max(0, s - q)
            /\ Dispatched("stock_low", m) <=> (s >= Threshold /\ Max(0, s - q) < Threshold)
            /\ Dispatched("stock_low", m) =>
                 (cur = Ticket(LowStockWarningEvent(m), 1)
                    /\ calls["stockWarningSubscriber"] = 1)
            /\ ~Dispatched("stock_ok", m)
       /\ pub.type = "refill" =>
            /\ stockLevel[m] = s + q
            /\ Dispatched("stock_ok", m) <=> (s < Threshold /\ s + q >= Threshold)
            /\ Dispatched("stock_ok", m) =>
                 (cur = Ticket(StockLevelOkEvent(m), 1)
                    /\ calls["stockOkSubscriber1"] = 1)
            /\ ~Dispatched("stock_low", m)

\* C7 witness: part_000, Sale(8, "002") took machine 002 from 10 to 2, and the
\* publish of Refill(5, "002") has returned with stock 7 and a StockOk dispatched.
C7_Witness ==
  /\ impl = "set"
  /\ Returned
  /\ pub.type = "refill" /\ pub.machineId = "002" /\ pub.qty = 5
  /\ pre["002"] = 2
  /\ stockLevel["002"] = 7
  /\ Dispatched("stock_ok", "002")

\* C7 witness of the sale half: Sale(8, "002") from stock 10 has returned.
C7_WitnessSale ==
  /\ impl = "set"
  /\ Returned
  /\ pub.type = "sale" /\ pub.machineId = "002" /\ pub.qty = 8
  /\ pre["002"] = InitialStock
  /\ stockLevel["002"] = 2
  /\ Dispatched("stock_low", "002")

\* C8 (as claimed): a sell with amount >= 0 returns true exactly when the stock
\* was >= 3 before the call and is < 3 after it.
C8_SellEdgeTriggered ==
  (ret.op = "sell" /\ ~ret.thrown) =>
    (ret.result <=> (ret.prev >= Threshold /\ stockLevel[ret.id] < Threshold))

\* C8 on part_000 alone: Machine.sale is edge-triggered.
C8_Part000SellEdgeTriggered ==
  (impl = "set" /\ ret.op = "sell" /\ ~ret.thrown) =>
    (ret.result <=> (ret.prev >= Threshold /\ stockLevel[ret.id] < Threshold))

\* C9 (as claimed): a refill with amount >= 0 adds exactly amount and returns true
\* exactly when the stock was < 3 before the call and is >= 3 after it.
C9_RefillEdgeTriggered ==
  (ret.op = "refill" /\ ~ret.thrown) =>
    /\ stockLevel[ret.id] = ret.prev + ret.amount
    /\ ret.result <=> (ret.prev < Threshold /\ stockLevel[ret.id] >= Threshold)

\* C9 on part_000 alone: Machine.refill is edge-triggered with >= 3 as ok.
C9_Part000RefillEdgeTriggered ==
  (impl = "set" /\ ret.op = "refill" /\ ~ret.thrown) =>
    /\ stockLevel[ret.id] = ret.prev + ret.amount
    /\ ret.result <=> (ret.prev < Threshold /\ stockLevel[ret.id] >= Threshold)

\* C10: every machine's stockLevel is an integer >= 0 in every reachable state.
C10_StockNeverNegative == \A id \in MachineIds : stockLevel[id] \in Nat

\* C10 witness: a machine stands at 0 after a sale larger than its stock, made
\* directly or through a published Sale event.
C10_Witness ==
  \/ /\ ret.op = "sell" /\ ~ret.thrown
     /\ ret.amount > ret.prev /\ ret.prev > 0
     /\ stockLevel[ret.id] = 0
  \/ /\ Returned /\ pub.type = "sale" /\ pub.machineId \in MachineIds
     /\ pub.qty > pre[pub.machineId] /\ pre[pub.machineId] > 0
     /\ stockLevel[pub.machineId] = 0

\* C11: a direct sell or refill with a negative amount throws and leaves the
\* machine as it was (one with amount >= 0 does not throw); a published Sale or
\* Refill of a negative quantity for a known machine ends the top-level publish
\* with the error, every machine's stockLevel being what it was at the call.
C11_NegativeAmountFails ==
  /\ ret.op \in {"sell", "refill"} =>
       /\ ret.thrown <=> ret.amount < 0
       /\ ret.thrown => /\ stockLevel[ret.id] = ret.prev
                        /\ isLowStock[ret.id] = ret.prevLow
  /\ (pc = "idle" /\ ret.op = "publish" /\ pub.machineId \in MachineIds) =>
       /\ ret.thrown <=> pub.qty < 0
       /\ ret.thrown => (stockLevel = pre /\ queue = <<>>)

\* C11 witness: machine 001 stands at 2 after a sale, and publish(Refill(-1, "001"))
\* has ended with the error the refill subscriber's call of refill raised.
C11_Witness ==
  /\ pc = "idle" /\ ret.op = "publish" /\ ret.thrown
  /\ pub.type = "refill" /\ pub.machineId = "001" /\ pub.qty = -1
  /\ pre["001"] = 2
  /\ stockLevel["001"] = 2

\* C16: while a published event whose kind has no registered handler is processed,
\* no handler is invoked and no error ends the call (forEach is never entered), no
\* machine changes, no bucket gains a handler, and the one step that takes the
\* event leaves the queue empty: the event is gone when publish returns, so a
\* handler subscribed afterwards cannot receive it.  The first event a publish
\* call dispatches is always its own event.
C16_NoHandlerPublishIsNoOp ==
  [][/\ (pub # NoEvent /\ DispatchBucket(pool, pub.type) = <<>>) =>
          /\ pc = "loop"
          /\ pc' \in {"loop", "idle"}
          /\ stockLevel' = stockLevel
          /\ isLowStock' = isLowStock
          /\ calls' = NoCalls
          /\ queue' = <<>>
          /\ \A k \in Kinds : Bucket(pool', k) = Bucket(pool, k)
     /\ (pc = "loop" /\ cur = NoEvent /\ pc' # "idle") => cur' = pub]_vars

\* C16 witness: machine 001 stands at 2; Refill(5, "001") was published with no
\* refill handler registered (case7) and has been taken from the queue: the while
\* test is next, the queue is empty, the stock is still 2.
C16_Witness ==
  /\ pc = "loop"
  /\ cur = pub
  /\ pub.type = "refill" /\ pub.machineId = "001" /\ pub.qty = 5
  /\ Registered("refill") = {}
  /\ Registered("stock_ok") # {}
  /\ queue = <<>>
  /\ stockLevel["001"] = 2
  /\ calls = NoCalls

\* C18 (as claimed): no step of a publish call changes the registry; the handlers
\* of this specification call neither subscribe nor unsubscribe.
C18_PublishLeavesRegistry ==
  [][(pc # "idle" \/ pc' # "idle") => pool' = pool]_vars

\* C18 (amended): no step of a publish call changes the handlers of any bucket;
\* the one change a publish makes to the registry is that the lookup of a
\* dispatched event's kind creates an empty bucket when the kind has none.
C18_PublishLeavesBuckets ==
  [][(pc # "idle" \/ pc' # "idle") =>
       /\ \A k \in Kinds : Bucket(pool', k) = Bucket(pool, k)
       /\ DOMAIN pool \subseteq DOMAIN pool'
       /\ DOMAIN pool' \subseteq (DOMAIN pool) \cup {cur'.type}]_vars

\* C18 witness: a Refill was published to a service whose registry had a sale
\* bucket only; its dispatch is complete, the sale bucket is as it was and the
\* registry now has an empty refill bucket.
C18_Witness ==
  /\ DispatchComplete
  /\ cur = pub /\ pub.type = "refill"
  /\ DOMAIN pool = {"sale", "refill"}
  /\ pool["refill"] = <<>>
  /\ pool["sale"] # <<>>
  /\ Members(pool["sale"]) = Registered("sale")

\* C17 (as claimed): part_000: the dispatch of an event ends only when every
\* handler in the bucket of its kind has been invoked exactly once for it.
C17_DeliveredToEveryHandler ==
  [][(impl = "set" /\ pc = "each" /\ pc' # "each") =>
       LET b == DispatchBucket(pool, cur.type)
       IN \A j \in 1..Len(b) :
            (IF j = idx + 1 THEN calls[b[j]] + 1 ELSE calls[b[j]]) = 1]_vars

\* C17 (amended): part_000 with the provided subscriber classes.  Each take from
\* the queue removes an event that was enqueued after every event taken before,
\* no queued event is queued twice, and the queue is empty when the publish call
\* is over: every enqueued event is dequeued exactly once and never dispatched
\* again.  When forEach runs to its end every handler registered for the kind
\* has been invoked exactly once and no other handler at all; when a handler
\* throws, the handlers before it have been invoked once and the handlers after
\* it are not invoked for the event.
C17_ConsumedOnce ==
  [][impl = "set" =>
       LET b == DispatchBucket(pool, cur.type)
       IN /\ (pc = "loop" /\ pc' # "idle") =>
               /\ cur'.n > cur.n
               /\ \A j \in 1..Len(queue') : queue'[j].n > cur'.n
          /\ \A j, k \in QueueIndexes : queue[j].n = queue[k].n => j = k
          /\ pc' = "idle" => queue' = <<>>
          /\ (pc = "each" /\ pc' = "loop") =>
               \A h \in Handlers :
                 calls'[h] = IF h \in Registered(cur.type) THEN 1 ELSE 0
          /\ (pc = "each" /\ pc' = "idle") =>
               \A j \in 1..Len(b) : calls[b[j]] = IF j <= idx THEN 1 ELSE 0]_vars

\* C17 witness: part_000, two sale handlers registered; the dispatch of a Sale of 8
\* for machine 001 is complete, each of the two has been invoked once (10 -> 2 -> 0)
\* and the warning the first one emitted waits in the queue.
C17_Witness ==
  /\ impl = "set"
  /\ DispatchComplete
  /\ cur.type = "sale" /\ cur.machineId = "001" /\ cur.n = 0
  /\ calls["saleSubscriber"] = 1
  /\ calls["saleSubscriber2"] = 1
  /\ stockLevel["001"] = 0
  /\ Len(queue) = 1 /\ queue[1].type = "stock_low"

\* C20: with any of the four provided subscribers registered, every publish call
\* that has started comes to its end with the queue empty.  Every event added
\* during the call is a LowStockWarning or a StockOk, added while the published
\* Sale or Refill event itself is dispatched (second order); the dispatch of such
\* an event adds nothing to the queue, so there is no third order.
C20_CascadeTerminates ==
  /\ [][/\ \A j \in 1..Len(queue') :
             queue'[j].n > pub'.n =>
               /\ queue'[j].type \in {"stock_low", "stock_ok"}
               /\ pub'.type \in {"sale", "refill"}
        /\ (pc = "each" /\ cur # pub) =>
             /\ cur.type \in {"stock_low", "stock_ok"}
             /\ queue' = queue
        /\ pc' = "idle" => queue' = <<>>]_vars
  /\ (pc # "idle") ~> (pc = "idle" /\ queue = <<>>)

\* C20 witness: a published Refill cascaded into a StockOk, which has been
\* delivered to its subscriber; the queue is empty and the while test is next.
C20_Witness ==
  /\ DispatchComplete
  /\ pub.type = "refill"
  /\ cur.type = "stock_ok" /\ cur.n = 1
  /\ calls["stockOkSubscriber1"] = 1
  /\ queue = <<>>

\* C12 (as claimed): while a handler that called publish has not returned, the
\* nested call takes no event from the queue and invokes no handler: the event
\* being dispatched is still the handler's own and no forEach is entered.
C12_NestedPublishOnlyAppends ==
  stack # <<>> => (pc = "loop" /\ cur = stack[Len(stack)].cur)

\* C13 (as claimed): part_000: every handler invoked for the event being
\* dispatched was in the bucket of its kind when its dispatch began, so a handler
\* subscribed from inside a handler during the dispatch of E is not invoked for E.
C13_NewHandlerSkipsCurrentEvent ==
  impl = "set" => \A h \in AllHandlers : calls[h] > 0 => h \in Members(snap)

\* C14: the handler that the next callback of forEach is for is subscribed to the
\* kind of the event at that moment: a handler unsubscribed from inside a handler
\* is not invoked again, neither for the event being dispatched, when its turn had
\* not come yet, nor for a later event, until it is subscribed again.
C14_UnsubscribedNeverInvoked ==
  pc = "each" => <<cur.type, NextHandler>> \in subscribed

\* C14 witness: part_000, the sale bucket was [saleRemover, saleSubscriber]; the
\* dispatch of Sale(8, "001") is complete, saleRemover has run and unsubscribed
\* saleSubscriber, which was not invoked: machine 001 still has its 10 units.
C14_Witness ==
  /\ impl = "set"
  /\ DispatchComplete
  /\ cur.type = "sale" /\ cur.machineId = "001" /\ cur.qty = 8
  /\ snap = <<"saleRemover", "saleSubscriber">>
  /\ calls["saleRemover"] = 1
  /\ calls["saleSubscriber"] = 0
  /\ "saleSubscriber" \notin Members(Bucket(pool, "sale"))
  /\ stockLevel["001"] = InitialStock

\* C15 (as claimed): part_000: an event being dispatched was enqueued by the
\* publish call in progress or during it, never before it: the events left in the
\* queue when a handler threw are not delivered by a later publish call.
C15_AbortedEventsStayUndelivered ==
  (impl = "set" /\ pc # "idle" /\ cur # NoEvent) => cur.n >= pub.n

\* C19: part_000: a subscribe(K, h) call throws exactly when h is not of the
\* subscriber class of K, and then the registry is what it was before the call;
\* otherwise bucket K is what it was with h as a member (appended when new), and
\* every other bucket is what it was.  Hence every bucket holds handlers of its
\* own class only, and a handler of another class is never the one forEach
\* invokes for an event of kind K.
C19_SubscribeChecksClass ==
  impl = "set" =>
    /\ ret.op = "subscribe" =>
         /\ ret.thrown <=> ClassOf(ret.handler) # ret.kind
         /\ ret.thrown => pool = ret.before
         /\ ~ret.thrown =>
              /\ LET old == Bucket(ret.before, ret.kind)
                     new == Bucket(pool, ret.kind)
                 IN /\ Members(new) = Members(old) \cup {ret.handler}
                    /\ SubSeq(new, 1, Len(old)) = old
                    /\ Len(new) = Cardinality(Members(new))
              /\ \A k \in Kinds \ {ret.kind} :
                   /\ Bucket(pool, k) = Bucket(ret.before, k)
                   /\ k \in DOMAIN pool <=> k \in DOMAIN ret.before
    /\ \A k \in Kinds : \A h \in Members(Bucket(pool, k)) : ClassOf(h) = k

\* C19 witness: part_000, subscribe("refill", saleSubscriber) has thrown on a
\* registry in which saleSubscriber is registered under sale and the refill
\* bucket holds the refill subscriber; the registry is as before the call.
C19_Witness ==
  /\ impl = "set"
  /\ ret.op = "subscribe" /\ ret.thrown
  /\ ret.kind = "refill" /\ ret.handler = "saleSubscriber"
  /\ pool = ret.before
  /\ Bucket(pool, "sale") = <<"saleSubscriber">>
  /\ Bucket(pool, "refill") = <<"refillSubscriber">>

\* an event the step has added to the queue
NewlyQueued(j) == queue'[j].n >= nextN

\* C21 (as claimed): whenever a sale or refill subscriber emits an event for a
\* machine, a LowStockWarning follows no emission or a StockOk for that machine,
\* and a StockOk follows a LowStockWarning for it: the two kinds alternate,
\* starting with a LowStockWarning.
C21_WarningsAlternate ==
  [][pc = "each" =>
       \A j \in 1..Len(queue') :
         NewlyQueued(j) =>
           /\ queue'[j].type = "stock_low" =>
                lastEmit[queue'[j].machineId] \in {"none", "stock_ok"}
           /\ queue'[j].type = "stock_ok" =>
                lastEmit[queue'[j].machineId] = "stock_low"]_vars

\* C21 on part_000 alone: with the edge-triggered sale and refill the emitted
\* kinds alternate.
C21_Part000WarningsAlternate ==
  [][(impl = "set" /\ pc = "each") =>
       \A j \in 1..Len(queue') :
         NewlyQueued(j) =>
           /\ queue'[j].type = "stock_low" =>
                lastEmit[queue'[j].machineId] \in {"none", "stock_ok"}
           /\ queue'[j].type = "stock_ok" =>
                lastEmit[queue'[j].machineId] = "stock_low"]_vars

\* C22: part_000: when forEach is about to invoke a handler for the event being
\* dispatched, that handler is registered, every registered handler already
\* invoked for the event stands before it in the order of registration and every
\* registered handler not invoked yet stands after it, where subscribing a
\* registered handler again keeps its place and a handler subscribed again after
\* an unsubscribe is the latest; when forEach is over, every registered handler
\* has been invoked.
C22_InvokedInSubscribeOrder ==
  impl = "set" =>
    LET o == order[cur.type]
    IN /\ pc = "each" =>
            LET p == PositionIn(o, NextHandler)
            IN /\ p # 0
               /\ \A h \in Members(o) \ {NextHandler} :
                    IF calls[h] > 0 THEN PositionIn(o, h) < p ELSE PositionIn(o, h) > p
       /\ (DispatchComplete /\ (stack = <<>> \/ stack[Len(stack)].cur # cur)) =>
            \A h \in Members(o) : calls[h] > 0

\* C22 witness: part_000, saleSubscriber2 is registered before saleSubscriber
\* (saleSubscriber was subscribed after it, or unsubscribed and subscribed
\* again); for a Sale of 8 on machine 001 saleSubscriber2 has been invoked
\* (10 -> 2) and saleSubscriber is the next.
C22_Witness ==
  /\ impl = "set"
  /\ pc = "each"
  /\ cur.type = "sale" /\ cur.machineId = "001"
  /\ order["sale"] = <<"saleSubscriber2", "saleSubscriber">>
  /\ calls["saleSubscriber2"] = 1
  /\ calls["saleSubscriber"] = 0
  /\ NextHandler = "saleSubscriber"
  /\ stockLevel["001"] = 2

\* the <<kind, handler>> registrations of a pool
Registrations(p) == {<<k, h>> \in Kinds \X Handlers : h \in Members(Bucket(p, k))}

\* C23: part_000: every bucket holds handlers of the class of its kind only, no
\* handler twice, so no handler is in the buckets of two kinds; an unsubscribe(h)
\* call removes the registrations of h, of which there is at most one, and no
\* other.
C23_OneRegistrationPerHandler ==
  impl = "set" =>
    /\ \A k \in Kinds :
         /\ \A h \in Members(Bucket(pool, k)) : ClassOf(h) = k
         /\ Len(Bucket(pool, k)) = Cardinality(Members(Bucket(pool, k)))
    /\ \A h \in Handlers : Cardinality({k \in Kinds : <<k, h>> \in Registrations(pool)}) <= 1
    /\ ret.op = "unsubscribe" =>
         LET gone == Registrations(ret.before) \ Registrations(pool)
         IN /\ Registrations(pool) \subseteq Registrations(ret.before)
            /\ Cardinality(gone) <= 1
            /\ \A r \in gone : r[2] = ret.handler
            /\ \A r \in Registrations(pool) : r[2] # ret.handler

\* C23 witness: part_000, both sale subscribers and the refill subscriber were
\* registered; unsubscribe(saleSubscriber) has removed its one registration.
C23_Witness ==
  /\ impl = "set"
  /\ ret.op = "unsubscribe" /\ ret.handler = "saleSubscriber"
  /\ Bucket(ret.before, "sale") = <<"saleSubscriber", "saleSubscriber2">>
  /\ Bucket(pool, "sale") = <<"saleSubscriber2">>
  /\ Bucket(pool, "refill") = <<"refillSubscriber">>

\* C24: from the call of publish(Sale or Refill for machine id X) on, during the
\* call and after it, every machine whose id is not X has the stockLevel it had
\* at the call, and every event the call has taken from the queue besides the
\* published one is for machine X; when X is the id of no machine, no machine
\* changes and the call adds no event to the queue.
C24_OnlyTheNamedMachine ==
  (observe /\ pub.type \in {"sale", "refill"}) =>
    /\ \A m \in MachineIds \ {pub.machineId} : stockLevel[m] = pre[m]
    /\ \A j \in 1..Len(log) : log[j].machineId = pub.machineId
    /\ \A j \in QueueIndexes : queue[j].machineId = pub.machineId
    /\ pub.machineId \notin MachineIds =>
         /\ stockLevel = pre
         /\ queue \in {<<>>, <<pub>>}
         /\ \A j \in 1..Len(log) : log[j] = pub

\* C24 witness: machine 001 stands at 2 after an earlier sale; publish(Sale(8,
\* "002")) has returned: machine 002 went from 10 to 2, its warning was
\* dispatched, machine 001 still stands at 2.
C24_Witness ==
  /\ Returned
  /\ pub.type = "sale" /\ pub.machineId = "002" /\ pub.qty = 8
  /\ pre = [id \in MachineIds |-> IF id = "001" THEN 2 ELSE InitialStock]
  /\ stockLevel = [id \in MachineIds |-> 2]
  /\ Dispatched("stock_low", "002")

\* the other case of C24: a Refill for the unknown machine id has returned
C24_WitnessUnknownId ==
  /\ Returned
  /\ pub.type = "refill" /\ pub.machineId = UnknownId /\ pub.qty = 5
  /\ stockLevel = pre
  /\ stockLevel["001"] = 2
  /\ log = <<pub>>

====
